---- MODULE Spec2Model ----
(***************************************************************************)
(* A model of build.py, the static page generator: template discovery     *)
(* (should_render, find_templates), the renderer (render_template), the   *)
(* context registry (CONTEXTS, context_generator), the build pass         *)
(* (render_templates), and watch mode (watch_templates, on_modified).     *)
(*                                                                         *)
(* Strings are sequences of one-character strings, so that startswith,    *)
(* split, splitext, join and relpath are computed as Python computes them.*)
(* A file's content is a sequence of chunks; a chunk is a triple          *)
(* <<kind, src, ctx>>: a template source written by the user              *)
(* (<<"ok", <<>>, {}>>, ...) or the engine's render of the source src     *)
(* with the context ctx (<<"html", src, ctx>>).                           *)
(***************************************************************************)
EXTENDS Integers, Sequences, FiniteSets, TLC

VARIABLES
    dirs,       \* the directories that exist (absolute paths)
    fs,         \* the files that exist: absolute path -> content
    reverse,    \* the order in which the OS lists a directory's entries
    CONTEXTS,   \* build.py:65, the registry: path -> context generator
    pcs,        \* where the main thread is
    active,     \* the render_templates calls in progress (frames)
    last,       \* the frame of the build pass that ended last
    prev,       \* the frame of the build pass that ended before last
    queue,      \* the observer's event queue (src_path of each event)
    obs,        \* the observer's dispatching thread: "unstarted", "running",
                \* "exited" (after stop) or "dead" (of an uncaught error)
    stopReq,    \* observer.stop() has been called
    mods        \* the paths modified from outside so far, in order

vars == <<dirs, fs, reverse, CONTEXTS, pcs, active, last, prev, queue, obs, stopReq, mods>>

----------------------------------------------------------------------------
(* Bounds of the model. *)

MaxFindFiles == 3
MaxBuildFiles == 2
MaxWatchFiles == 1
MaxContexts == 1
MaxPasses == 2
MaxQueue == 2
MaxMods == 2

----------------------------------------------------------------------------
(* Strings. *)

\* The characters that occur, in their ASCII order.
Alphabet == <<".", "/", "_", "a", "d", "e", "h", "l", "m", "p", "s", "t", "x", "y">>

Rank(c) == CHOOSE i \in 1..Len(Alphabet) : Alphabet[i] = c

RECURSIVE LexLess(_, _)
LexLess(a, b) ==
    IF a = <<>> THEN b # <<>>
    ELSE IF b = <<>> THEN FALSE
    ELSE IF Head(a) = Head(b) THEN LexLess(Tail(a), Tail(b))
    ELSE Rank(Head(a)) < Rank(Head(b))

\* str.startswith
startswith(s, prefix) ==
    /\ Len(prefix) <= Len(s)
    /\ SubSeq(s, 1, Len(prefix)) = prefix

\* str.rfind of one character: the last index of c in s, 0 when there is none
\* (Python's -1, with indices from 1).
rfind(s, c) ==
    IF \A i \in 1..Len(s) : s[i] # c THEN 0
    ELSE CHOOSE i \in 1..Len(s) : s[i] = c /\ \A j \in (i + 1)..Len(s) : s[j] # c

\* str.find of one character, 0 when there is none.
find(s, c) ==
    IF \A i \in 1..Len(s) : s[i] # c THEN 0
    ELSE CHOOSE i \in 1..Len(s) : s[i] = c /\ \A j \in 1..(i - 1) : s[j] # c

\* str.split(sep) for a one-character separator.
RECURSIVE split(_, _)
split(s, sep) ==
    IF find(s, sep) = 0 THEN <<s>>
    ELSE <<SubSeq(s, 1, find(s, sep) - 1)>> \o split(SubSeq(s, find(s, sep) + 1, Len(s)), sep)

\* os.path.join(a, b) for a relative b and an a that does not end in "/".
join(a, b) == a \o <<"/">> \o b

dirname(p) == SubSeq(p, 1, rfind(p, "/") - 1)

basename(p) == SubSeq(p, rfind(p, "/") + 1, Len(p))

RECURSIVE joinall(_)
joinall(parts) ==
    IF Len(parts) = 0 THEN <<>>
    ELSE IF Len(parts) = 1 THEN parts[1]
    ELSE join(parts[1], joinall(Tail(parts)))

\* os.path.relpath(path, start) for two absolute normalised paths: the
\* components of start after the common prefix become "..", followed by the
\* components of path after the common prefix.
\* The length of the longest common prefix of two sequences.
RECURSIVE common(_, _)
common(a, b) ==
    IF a = <<>> \/ b = <<>> \/ Head(a) # Head(b) THEN 0
    ELSE 1 + common(Tail(a), Tail(b))

rel_list(pl, sl, i) ==
    [k \in 1..(Len(sl) - i) |-> <<".", ".">>] \o SubSeq(pl, i + 1, Len(pl))

curdir_or(rl) == IF rl = <<>> THEN <<".">> ELSE joinall(rl)

relpath_of(pl, sl) == curdir_or(rel_list(pl, sl, common(pl, sl)))

relpath(path, start) == relpath_of(Tail(split(path, "/")), Tail(split(start, "/")))

\* os.path.splitext: the extension starts at the last dot of the last
\* component, unless only dots precede it there.
splitext_at(p, sepIndex, dotIndex) ==
    IF /\ dotIndex > sepIndex
       /\ \E k \in (sepIndex + 1)..(dotIndex - 1) : p[k] # "."
    THEN <<SubSeq(p, 1, dotIndex - 1), SubSeq(p, dotIndex, Len(p))>>
    ELSE <<p, <<>>>>

splitext(p) == splitext_at(p, rfind(p, "/"), rfind(p, "."))

----------------------------------------------------------------------------
(* Paths of the program. *)

\* build.py:27: the directory that holds build.py.
PROJECT_PATH == <<"/", "p">>

TEMPLATE_DIR == <<"t", "e", "m", "p", "l", "a", "t", "e", "s">>

TEMPLATE_PATH == join(PROJECT_PATH, TEMPLATE_DIR)

\* The working directory: build.py:4, templates "will be compiled in '.'",
\* with "./templates" the template directory.
CWD == PROJECT_PATH

\* Whether path p is directory d or lies below it.
IsUnder(p, d) == p = d \/ startswith(p, d \o <<"/">>)

----------------------------------------------------------------------------
(* The file system. *)

\* The entries of directory top, in the order the OS lists them: an order
\* that is arbitrary but the same each time (ascending or descending here).
SetToSortedSeq(S) ==
    LET RECURSIVE ToSeq(_)
        ToSeq(T) == IF T = {} THEN <<>>
                    ELSE LET x == CHOOSE x \in T : TRUE
                         IN  <<x>> \o ToSeq(T \ {x})
    IN  SortSeq(ToSeq(S), LAMBDA a, b : IF reverse THEN LexLess(b, a) ELSE LexLess(a, b))

listdir(top, FS, D) ==
    SetToSortedSeq({basename(p) : p \in {q \in (DOMAIN FS) \cup D : q # <<>> /\ dirname(q) = top}})

----------------------------------------------------------------------------
(* Template discovery. *)

\* should_render without its test for an extension.
should_render_no_ext(filename) ==
    ~ (\/ startswith(filename, <<"_">>)
       \/ startswith(filename, <<".">>))

\* build.py:76-86
should_render(filename) ==
    ~ (\/ startswith(filename, <<"_">>)
       \/ startswith(filename, <<".">>)
       \/ Len(split(filename, ".")) = 1)

NoPath == <<>>

\* The state of the generator find_templates(searchpath) before its first
\* step: os.walk has one directory to visit.
find_templates(searchpath) ==
    [pending |-> <<searchpath>>, root |-> NoPath, files |-> <<>>]

\* One next() of the generator: [gen |-> its state afterwards, out |-> the
\* path it yields, NoPath when it is exhausted].  os.walk lists a directory
\* when it reaches it (top-down), yields its files, then visits its
\* subdirectories in the listed order; a directory that cannot be listed is
\* skipped.
\* os.walk reaches directory top, whose entries are names: the files are
\* yielded next, the subdirectories are visited after them and before rest.
subdirs(top, dirnames) == [k \in 1..Len(dirnames) |-> join(top, dirnames[k])]

walk_into(top, rest, names, D) ==
    [pending |-> subdirs(top, SelectSeq(names, LAMBDA n : join(top, n) \in D)) \o rest,
     root |-> top,
     files |-> SelectSeq(names, LAMBDA n : join(top, n) \notin D)]

RECURSIVE gen_next(_, _, _)
gen_next(g, FS, D) ==
    IF g.files # <<>> THEN
        IF should_render(Head(g.files))
        THEN [gen |-> [g EXCEPT !.files = Tail(g.files)], out |-> join(g.root, Head(g.files))]
        ELSE gen_next([g EXCEPT !.files = Tail(g.files)], FS, D)
    ELSE IF g.pending # <<>> THEN
        gen_next(walk_into(Head(g.pending), Tail(g.pending),
                           IF Head(g.pending) \in D THEN listdir(Head(g.pending), FS, D)
                           ELSE <<>>, D),
                 FS, D)
    ELSE [gen |-> g, out |-> NoPath]

----------------------------------------------------------------------------
(* The templating engine, as the build uses it. *)

OkSrc        == <<<<"ok", <<>>, {}>>>>
BadSyntaxSrc == <<<<"badsyntax", <<>>, {}>>>>
BadRenderSrc == <<<<"badrender", <<>>, {}>>>>

Sources == {OkSrc, BadSyntaxSrc, BadRenderSrc}

Kind(content) == IF content = <<>> THEN "ok" ELSE content[1][1]

\* env.get_template(relpath): "none", or the error the loader or the
\* compiler raises.
get_template(FS, rel) ==
    IF join(TEMPLATE_PATH, rel) \notin DOMAIN FS THEN "TemplateNotFound"
    ELSE IF Kind(FS[join(TEMPLATE_PATH, rel)]) = "badsyntax" THEN "TemplateSyntaxError"
    ELSE "none"

\* template.render(**kwargs): the rendered text, one chunk.
Render(src, ctx) == <<"html", src, ctx>>

----------------------------------------------------------------------------
(* The renderer. *)

\* open(output_name, "a"): an existing file keeps its content.
OpenW_append(FS, out) == IF out \in DOMAIN FS THEN FS ELSE (out :> <<>>) @@ FS

\* open(output_name, "w"): the file is created or truncated.
OpenW(FS, out) == (out :> <<>>) @@ FS

\* f.write(data)
Write(FS, out, data) == [FS EXCEPT ![out] = @ \o <<data>>]

\* build.py:46 and 49, with the relative name resolved against the working
\* directory as open() resolves it.
output_name(rel) == join(CWD, splitext(rel)[1] \o <<".", "h", "t", "m", "l">>)

Failed(e, F, o) == [fs |-> F, err |-> e, out |-> o, rendered |-> FALSE, data |-> <<>>]

\* build.py:50-51: open, render, write.
write_output(FS, D, kwargs, src, out) ==
    IF dirname(out) \notin D \/ out \in D
    THEN Failed("IOError", FS, NoPath)
    ELSE IF Kind(src) = "badrender"
    THEN Failed("UndefinedError", OpenW(FS, out), out)
    ELSE [fs |-> Write(OpenW(FS, out), out, Render(src, kwargs)),
          err |-> "none", out |-> out, rendered |-> TRUE, data |-> Render(src, kwargs)]

\* build.py:48-51
render_rel(FS, D, kwargs, rel, loaded) ==
    IF loaded # "none"
    THEN Failed(loaded, FS, NoPath)
    ELSE write_output(FS, D, kwargs, FS[join(TEMPLATE_PATH, rel)], output_name(rel))

\* build.py:36-51. kwargs is the context, a set of <<key, value>> pairs.
\* The result: the file system afterwards, the error raised ("none" when
\* the call returns), the path opened for writing (NoPath when open was not
\* reached or failed), whether the engine's render returned, and the text
\* it returned.  A context with a key that is the name of a parameter of
\* render_template makes the call itself fail.
render_template(FS, D, template_name, kwargs) ==
    IF \E kv \in kwargs : kv[1] \in {"env", "template_name"}
    THEN Failed("TypeError", FS, NoPath)
    ELSE render_rel(FS, D, kwargs, relpath(template_name, TEMPLATE_PATH),
                    get_template(FS, relpath(template_name, TEMPLATE_PATH)))

----------------------------------------------------------------------------
(* The context registry. *)

\* A context generator is what calling it does: it returns a context or
\* raises an error.
Returns(ctx) == [ret |-> ctx, raise |-> "none"]
Raises(e) == [ret |-> {}, raise |-> e]

Generators ==
    { Returns({<<"title", "v">>}), Returns({<<"env", "v">>}),
      Raises("KeyError"), Raises("IOError") }

\* build.py:68-73
context_generator(C, filename, func) == (filename :> func) @@ C

\* build.py:101-103: the call of the generator inside the try statement,
\* whose except clause takes a KeyError for a missing registration.
call_generator(func) ==
    IF func.raise = "none"
    THEN [ctx |-> func.ret, called |-> TRUE, raised |-> "none", err |-> "none"]
    ELSE IF func.raise = "KeyError"
    THEN [ctx |-> {}, called |-> TRUE, raised |-> func.raise, err |-> "none"]
    ELSE [ctx |-> {}, called |-> TRUE, raised |-> func.raise, err |-> func.raise]

\* The lookup by the file's name instead of its exact path.
resolve_context_by_name(C, filename) ==
    IF basename(filename) \notin DOMAIN C
    THEN [ctx |-> {}, called |-> FALSE, raised |-> "none", err |-> "none"]
    ELSE call_generator(C[basename(filename)])

\* build.py:100-103: the context of one template.  called: whether a
\* generator was called; raised: the error the generator raised; err: the
\* error that leaves the try statement.
resolve_context(C, filename) ==
    IF filename \notin DOMAIN C
    THEN [ctx |-> {}, called |-> FALSE, raised |-> "none", err |-> "none"]
    ELSE call_generator(C[filename])

----------------------------------------------------------------------------
(* The build pass. *)

\* The frame of one call of render_templates: its generator, what it has
\* done to each template so far (log), the error that ended it, and the
\* file system it started from.
NewFrame(owner, n, FS) ==
    [owner |-> owner, n |-> n, gen |-> find_templates(TEMPLATE_PATH),
     log |-> <<>>, err |-> "none", done |-> FALSE, start |-> FS]

NoFrame ==
    [owner |-> "none", n |-> 0, gen |-> find_templates(TEMPLATE_PATH),
     log |-> <<>>, err |-> "none", done |-> FALSE, start |-> <<>>]

\* build.py:99-104, the body of the loop for one template: the log entry
\* and the file system afterwards.
LogEntry(filename, src, c, r) ==
    [fs |-> r.fs,
     entry |-> [tpl |-> filename, called |-> c.called, raised |-> c.raised,
                ctx |-> c.ctx, src |-> src, out |-> r.out,
                rendered |-> r.rendered, data |-> r.data, err |-> r.err]]

render_with(FS, D, filename, c) ==
    LogEntry(filename, FS[filename], c,
             IF c.err # "none" THEN Failed(c.err, FS, NoPath)
             ELSE render_template(FS, D, filename, c.ctx))

render_one(C, FS, D, filename) == render_with(FS, D, filename, resolve_context(C, filename))

Remove(s, i) == SubSeq(s, 1, i - 1) \o SubSeq(s, i + 1, Len(s))

\* The observer scheduled on the project directory.
WatchedPath_project == PROJECT_PATH

\* build.py:149 and 117: the directory the observer is scheduled on,
\* recursively.
WatchedPath == TEMPLATE_PATH

\* The observer's emitter reports changes from observer.start() until
\* observer.stop().
EmitterActive == obs \in {"running", "dead"} /\ ~stopReq

\* The observer's queue after a change of path: the emitter queues an event
\* for a path below the directory it watches.
Emit(q, path) ==
    IF EmitterActive /\ path # NoPath /\ IsUnder(path, WatchedPath) /\ Len(q) < MaxQueue
    THEN Append(q, path) ELSE q

\* What the end of a pass means to the thread that ran it: the main thread
\* goes on (build.py:131) or dies of the uncaught error; the observer thread
\* goes back to its queue or dies of the uncaught error.
AfterPass(f, e) ==
    IF f.owner = "main"
    THEN /\ pcs' = IF e = "none" THEN "built" ELSE "crashed"
         /\ obs' = obs
    ELSE /\ pcs' = pcs
         /\ obs' = IF e = "none" THEN obs ELSE "dead"

\* One template: the loop body returns.
RenderNext(i) ==
    /\ i \in 1..Len(active)
    /\ \E f \in {active[i]} : \E g \in {gen_next(f.gen, fs, dirs)} :
           /\ g.out # NoPath
           /\ \E r \in {render_one(CONTEXTS, fs, dirs, g.out)} :
                  /\ r.entry.err = "none"
                  /\ fs' = r.fs
                  /\ active' = [active EXCEPT ![i] =
                                  [f EXCEPT !.gen = g.gen, !.log = Append(@, r.entry)]]
                  /\ queue' = Emit(queue, r.entry.out)
    /\ UNCHANGED <<dirs, reverse, CONTEXTS, pcs, last, prev, obs, stopReq, mods>>

\* The loop body raises, and the loop goes on to the next template.
RenderFail_continue(i) ==
    /\ i \in 1..Len(active)
    /\ \E f \in {active[i]} : \E g \in {gen_next(f.gen, fs, dirs)} :
           /\ g.out # NoPath
           /\ \E r \in {render_one(CONTEXTS, fs, dirs, g.out)} :
                  /\ r.entry.err # "none"
                  /\ fs' = r.fs
                  /\ active' = [active EXCEPT ![i] =
                                  [f EXCEPT !.gen = g.gen, !.log = Append(@, r.entry)]]
                  /\ queue' = Emit(queue, r.entry.out)
    /\ UNCHANGED <<dirs, reverse, CONTEXTS, pcs, last, prev, obs, stopReq, mods>>

\* One template: the loop body raises, and the error leaves render_templates.
RenderFail(i) ==
    /\ i \in 1..Len(active)
    /\ \E f \in {active[i]} : \E g \in {gen_next(f.gen, fs, dirs)} :
           /\ g.out # NoPath
           /\ \E r \in {render_one(CONTEXTS, fs, dirs, g.out)} :
                  /\ r.entry.err # "none"
                  /\ fs' = r.fs
                  /\ active' = Remove(active, i)
                  /\ last' = [f EXCEPT !.gen = g.gen, !.log = Append(@, r.entry),
                                       !.err = r.entry.err]
                  /\ prev' = last
                  /\ queue' = Emit(queue, r.entry.out)
                  /\ AfterPass(f, r.entry.err)
    /\ UNCHANGED <<dirs, reverse, CONTEXTS, stopReq, mods>>

\* The generator is exhausted: render_templates returns.
PassEnd(i) ==
    /\ i \in 1..Len(active)
    /\ \E f \in {active[i]} : \E g \in {gen_next(f.gen, fs, dirs)} :
           /\ g.out = NoPath
           /\ active' = Remove(active, i)
           /\ last' = [f EXCEPT !.gen = g.gen, !.done = TRUE]
           /\ prev' = last
           /\ AfterPass(f, "none")
    /\ UNCHANGED <<dirs, fs, reverse, CONTEXTS, queue, stopReq, mods>>

----------------------------------------------------------------------------
(* The trees the model starts from. *)

RECURSIVE SubsetsUpTo(_, _)
SubsetsUpTo(S, k) ==
    IF k = 0 \/ S = {} THEN {{}}
    ELSE LET x == CHOOSE y \in S : TRUE
         IN  SubsetsUpTo(S \ {x}, k) \cup {A \cup {x} : A \in SubsetsUpTo(S \ {x}, k - 1)}

SubDir  == join(TEMPLATE_PATH, <<"s">>)
DeepDir == join(SubDir, <<"d", ".", "x">>)
NestDir == join(TEMPLATE_PATH, TEMPLATE_DIR)
OutDir  == join(PROJECT_PATH, <<"s">>)

\* The sets of directories: the project and template directories and any of
\* opt whose parent is there too.
TreeDirs(opt) ==
    { {PROJECT_PATH, TEMPLATE_PATH} \cup S : S \in {X \in SUBSET opt : \A d \in X :
          dirname(d) \in {PROJECT_PATH, TEMPLATE_PATH} \cup X} }

Slots(D, names) ==
    {join(d, n) : d \in {e \in D : IsUnder(e, TEMPLATE_PATH)}, n \in names}

FindNames ==
    { <<"a", ".", "x">>, <<"a", ".", "y">>, <<"_", "a", ".", "x">>,
      <<".", "a", ".", "x">>, <<"a">>, <<"a", ".">> }

BuildNames == { <<"a", ".", "x">>, <<"a", ".", "y">> }

\* The directories of a build: the template directory alone, or with a
\* subdirectory (and that subdirectory in the working directory too, for
\* the output), or with a subdirectory that has the template directory's
\* own name.
BuildDirs ==
    { {PROJECT_PATH, TEMPLATE_PATH} \cup S : S \in {{}, {SubDir}, {SubDir, OutDir}, {NestDir}} }

InitCommon ==
    /\ reverse \in BOOLEAN
    /\ CONTEXTS = <<>>
    /\ last = NoFrame
    /\ prev = NoFrame
    /\ queue = <<>>
    /\ obs = "unstarted"
    /\ stopReq = FALSE
    /\ mods = <<>>

----------------------------------------------------------------------------
(* Discovery alone: the generator find_templates(TEMPLATE_PATH) run to its *)
(* end over a tree that does not change.                                   *)

InitFind ==
    /\ dirs \in TreeDirs({SubDir, DeepDir, NestDir}) \cup {{PROJECT_PATH}}
    /\ \E S \in SubsetsUpTo(Slots(dirs, FindNames), MaxFindFiles) : fs \in [S -> {OkSrc}]
    /\ pcs = "finding"
    /\ active = <<NewFrame("find", 1, fs)>>
    /\ InitCommon

Yielded(path) ==
    [tpl |-> path, called |-> FALSE, raised |-> "none", ctx |-> {}, src |-> fs[path],
     out |-> NoPath, rendered |-> FALSE, data |-> <<>>, err |-> "none"]

\* next() yields a path.
FindNext ==
    /\ pcs = "finding"
    /\ \E f \in {active[1]} : \E g \in {gen_next(f.gen, fs, dirs)} :
           /\ g.out # NoPath
           /\ active' = <<[f EXCEPT !.gen = g.gen, !.log = Append(@, Yielded(g.out))]>>
    /\ UNCHANGED <<dirs, fs, reverse, CONTEXTS, pcs, last, prev, queue, obs, stopReq, mods>>

\* next() raises StopIteration.
FindEnd ==
    /\ pcs = "finding"
    /\ \E f \in {active[1]} : \E g \in {gen_next(f.gen, fs, dirs)} :
           /\ g.out = NoPath
           /\ active' = <<>>
           /\ last' = [f EXCEPT !.gen = g.gen, !.done = TRUE]
    /\ pcs' = "found"
    /\ UNCHANGED <<dirs, fs, reverse, CONTEXTS, prev, queue, obs, stopReq, mods>>

NextFind == FindNext \/ FindEnd

SpecFind == InitFind /\ [][NextFind]_vars

\* The templates a frame has been given by discovery, in order.
Templates(f) == [k \in 1..Len(f.log) |-> f.log[k].tpl]

Range(s) == {s[k] : k \in 1..Len(s)}

NoDuplicates(s) == \A i, j \in 1..Len(s) : i # j => s[i] # s[j]

\* The filter as the specification words it.
Renderable(name) ==
    /\ name[1] # "_"
    /\ name[1] # "."
    /\ \E k \in 1..Len(name) : name[k] = "."

\* C1: discovery yields a file of the tree if and only if its name does not
\* start with "_" or "." and contains a "."; each such file, at any depth,
\* is yielded exactly once, and no directory is ever yielded.
C1_Discovery ==
    /\ \A f \in Range(active) \cup {last} :
          /\ NoDuplicates(Templates(f))
          /\ \A p \in Range(Templates(f)) :
                /\ p \in DOMAIN fs
                /\ p \notin dirs
                /\ IsUnder(p, TEMPLATE_PATH)
                /\ Renderable(basename(p))
    /\ pcs = "found" =>
          \A p \in DOMAIN fs :
             (IsUnder(p, TEMPLATE_PATH) /\ Renderable(basename(p)))
                => p \in Range(Templates(last))

\* C1's witness: discovery has ended over a tree with a directory whose name
\* passes the filter, with a file yielded two levels down and a file not
\* yielded.
C1_Witness ==
    /\ pcs = "found"
    /\ DeepDir \in dirs
    /\ join(DeepDir, <<"a", ".", "x">>) \in Range(Templates(last))
    /\ \E p \in DOMAIN fs : p \notin Range(Templates(last))

----------------------------------------------------------------------------
(* The build: main without --watch (build.py:127-131), run MaxPasses      *)
(* times one after the other over what the run before left.               *)

InitBuild ==
    /\ dirs \in BuildDirs
    /\ \E S \in SubsetsUpTo(Slots(dirs, BuildNames), MaxBuildFiles) : fs \in [S -> Sources]
    /\ pcs = "startup"
    /\ active = <<>>
    /\ InitCommon

\* The paths a caller may register a generator for: a file's path, or the
\* name of a template relative to the template directory.
RegisterPaths == (DOMAIN fs) \cup {<<"a", ".", "x">>}

\* build.py:68-73, called before the first build.
Register(filename, func) ==
    /\ pcs = "startup"
    /\ Cardinality(DOMAIN CONTEXTS) < MaxContexts
    /\ filename \notin DOMAIN CONTEXTS
    /\ CONTEXTS' = context_generator(CONTEXTS, filename, func)
    /\ UNCHANGED <<dirs, fs, reverse, pcs, active, last, prev, queue, obs, stopReq, mods>>

\* build.py:130: main calls render_templates.
StartBuild ==
    /\ pcs = "startup"
    /\ pcs' = "building"
    /\ active' = <<NewFrame("main", 1, fs)>>
    /\ UNCHANGED <<dirs, fs, reverse, CONTEXTS, last, prev, queue, obs, stopReq, mods>>

\* The program is run again, with the same registrations.
Rerun ==
    /\ pcs \in {"built", "crashed"}
    /\ last.n < MaxPasses
    /\ pcs' = "building"
    /\ active' = <<NewFrame("main", last.n + 1, fs)>>
    /\ UNCHANGED <<dirs, fs, reverse, CONTEXTS, last, prev, queue, obs, stopReq, mods>>

NextBuild ==
    \/ \E filename \in RegisterPaths, func \in Generators : Register(filename, func)
    \/ StartBuild
    \/ \E i \in 1..Len(active) : RenderNext(i)
    \/ \E i \in 1..Len(active) : RenderFail(i)
    \/ \E i \in 1..Len(active) : PassEnd(i)
    \/ Rerun

SpecBuild == InitBuild /\ [][NextBuild]_vars

Frames == Range(active) \cup {last, prev}

Entries(f) == Range(f.log)

\* The output path as the specification words it: the template's path
\* relative to the template root, its last extension replaced by ".html".
SpecOutput(tpl) ==
    LET rel == SubSeq(tpl, Len(TEMPLATE_PATH) + 2, Len(tpl))
    IN  join(CWD, SubSeq(rel, 1, rfind(rel, ".") - 1) \o <<".", "h", "t", "m", "l">>)

\* C2: after a build pass that completes, every discovered template has an
\* output file of its own, at its relative path with the last extension
\* replaced by ".html", holding the engine's render of the template with
\* its resolved context.
C2_OneOutputEach ==
    (last.done /\ active = <<>>) =>
        /\ \A e \in Entries(last) :
              /\ SpecOutput(e.tpl) \in DOMAIN fs
              /\ fs[SpecOutput(e.tpl)] = <<Render(e.src, e.ctx)>>
        /\ \A j, k \in 1..Len(last.log) :
              j # k => SpecOutput(last.log[j].tpl) # SpecOutput(last.log[k].tpl)

\* C3: a template with a generator registered for its exact path has the
\* generator called and is rendered with what the generator returns; a
\* template with no generator registered for its exact path is rendered
\* with the empty context, and no generator is called.
C3_ContextResolution ==
    \A f \in Frames : \A e \in Entries(f) :
        /\ (e.tpl \in DOMAIN CONTEXTS /\ CONTEXTS[e.tpl].raise = "none") =>
              /\ e.called
              /\ e.ctx = CONTEXTS[e.tpl].ret
              /\ e.rendered => e.data = Render(e.src, CONTEXTS[e.tpl].ret)
        /\ e.tpl \notin DOMAIN CONTEXTS =>
              /\ ~e.called
              /\ e.ctx = {}
              /\ e.rendered => e.data = Render(e.src, {})
        /\ e.called => e.tpl \in DOMAIN CONTEXTS

\* C3's witness: a pass has rendered one template with the context its
\* generator returned and another, which has no generator, with the empty
\* context, while a generator is registered under a relative name.
C3_Witness ==
    /\ last.done
    /\ \E e1, e2 \in Entries(last) :
          /\ e1.called /\ e1.rendered /\ e1.ctx # {}
          /\ ~e2.called /\ e2.rendered

\* C4: an error raised by a registered generator aborts the pass at that
\* template, which is not rendered, and is the error the pass ends with,
\* whatever the error is.
C4_GeneratorErrorPropagates ==
    \A f \in Frames : \A k \in 1..Len(f.log) :
        f.log[k].raised # "none" =>
            /\ k = Len(f.log)
            /\ f.err = f.log[k].raised
            /\ ~f.log[k].rendered
            /\ f.log[k].out = NoPath

\* Discovery run to its end over a file system that does not change.
RECURSIVE AllTemplates(_, _, _)
AllTemplates(g, FS, D) ==
    LET r == gen_next(g, FS, D)
    IN  IF r.out = NoPath THEN <<>> ELSE <<r.out>> \o AllTemplates(r.gen, FS, D)

IsPrefix(s, t) == Len(s) <= Len(t) /\ SubSeq(t, 1, Len(s)) = s

WritesUnderRoot(f) == \E e \in Entries(f) : e.out # NoPath /\ IsUnder(e.out, TEMPLATE_PATH)

\* C5: a pass renders in discovery order and either completes or ends at
\* the first failure: the failing template is the last one touched, its
\* error is the error of the pass and reaches the caller, no template is
\* taken twice, and no file changed but the outputs of the templates up to
\* the failing one.
C5_AbortAtFirstFailure ==
    /\ \A f \in Range(active) : f.err = "none" /\ \A e \in Entries(f) : e.err = "none"
    /\ \A f \in {last, prev} :
          /\ f.done => (f.err = "none" /\ \A e \in Entries(f) : e.err = "none")
          /\ (f.n > 0 /\ ~f.done) =>
                /\ f.err # "none"
                /\ f.log # <<>>
                /\ f.log[Len(f.log)].err = f.err
                /\ \A k \in 1..(Len(f.log) - 1) : f.log[k].err = "none"
    /\ \A f \in Frames :
          /\ NoDuplicates(Templates(f))
          /\ ~WritesUnderRoot(f) =>
                IsPrefix(Templates(f), AllTemplates(find_templates(TEMPLATE_PATH), f.start, dirs))
    /\ (pcs \in {"built", "crashed"}) =>
          /\ (pcs = "crashed") = (last.err # "none")
          /\ \A p \in DOMAIN fs :
                (p \notin DOMAIN last.start \/ fs[p] # last.start[p])
                   => \E e \in Entries(last) : e.out = p

\* C5's witness: a pass has ended at the failure of its first template,
\* after the file was opened, with another template never rendered.
C5_Witness ==
    /\ pcs = "crashed"
    /\ Len(last.log) = 1
    /\ last.log[1].out # NoPath
    /\ Len(AllTemplates(find_templates(TEMPLATE_PATH), last.start, dirs)) = 2

TreeOf(FS) == [p \in {q \in DOMAIN FS : IsUnder(q, TEMPLATE_PATH)} |-> FS[p]]

Outputs(f) == [k \in 1..Len(f.log) |-> <<f.log[k].out, f.log[k].data>>]

----------------------------------------------------------------------------
(* Watch mode: main with --watch (build.py:127-151).                      *)

WatchNames == { <<"a", ".", "x">> }

InitWatch ==
    /\ dirs \in TreeDirs({NestDir})
    /\ \E S \in SubsetsUpTo(Slots(dirs, WatchNames), MaxWatchFiles) : fs \in [S -> Sources]
    /\ pcs = "startup"
    /\ active = <<>>
    /\ InitCommon

\* The paths that are modified from outside: a template, the template
\* directory itself, a file beside it and a file in a directory beside it
\* whose name starts with the template directory's name.
OutsidePlain == join(PROJECT_PATH, <<"a", ".", "x">>)
OutsideSibling == join(TEMPLATE_PATH \o <<"s">>, <<"a", ".", "x">>)

ModPaths ==
    { join(TEMPLATE_PATH, <<"a", ".", "x">>), TEMPLATE_PATH, OutsidePlain, OutsideSibling }

\* build.py:132-149 and 116-118: the handler is made, the observer is
\* scheduled on the template directory and started, and the main thread
\* enters its sleep loop.
StartWatch ==
    /\ pcs = "built"
    /\ pcs' = "watching"
    /\ obs' = "running"
    /\ UNCHANGED <<dirs, fs, reverse, CONTEXTS, active, last, prev, queue, stopReq, mods>>

\* Something outside the program modifies path: a file of the template
\* tree is written with the content src (or created with it), any other
\* path is touched.
Modify(path, src) ==
    /\ pcs \in {"watching", "joining", "returned"}
    /\ Len(mods) < MaxMods
    /\ Len(queue) < MaxQueue
    /\ mods' = Append(mods, path)
    /\ fs' = IF IsUnder(path, TEMPLATE_PATH) /\ path \notin dirs /\ dirname(path) \in dirs
             THEN (path :> src) @@ fs
             ELSE fs
    /\ queue' = Emit(queue, path)
    /\ UNCHANGED <<dirs, reverse, CONTEXTS, pcs, active, last, prev, obs, stopReq>>

\* One event handled as if by a thread of its own.
DispatcherFree_unserialized == TRUE

\* The observer is one thread, which takes an event from its queue and
\* calls the handler, and takes the next event when the handler has
\* returned (build.py:116-118).
DispatcherFree == \A k \in 1..Len(active) : active[k].owner # "obs"

\* build.py:144: the handler's test of the event's path.
on_modified(src_path) == startswith(src_path, TEMPLATE_PATH)

\* build.py:138-145: the observer thread takes an event and calls
\* on_modified, which starts a build pass or returns.
Dispatch ==
    /\ obs = "running"
    /\ DispatcherFree
    /\ queue # <<>>
    /\ queue' = Tail(queue)
    /\ active' = IF on_modified(Head(queue))
                 THEN Append(active, NewFrame("obs", 1, fs))
                 ELSE active
    /\ UNCHANGED <<dirs, fs, reverse, CONTEXTS, pcs, last, prev, obs, stopReq, mods>>

\* build.py:122-123: KeyboardInterrupt in the sleep loop; observer.stop().
Interrupt ==
    /\ pcs = "watching"
    /\ pcs' = "joining"
    /\ stopReq' = TRUE
    /\ UNCHANGED <<dirs, fs, reverse, CONTEXTS, active, last, prev, queue, obs, mods>>

\* The observer thread, between two events, sees that it was stopped.
ObserverExit ==
    /\ obs = "running"
    /\ stopReq
    /\ DispatcherFree
    /\ obs' = "exited"
    /\ UNCHANGED <<dirs, fs, reverse, CONTEXTS, pcs, active, last, prev, queue, stopReq, mods>>

\* observer.join() returns although the observer thread still runs.
Join_nowait ==
    /\ pcs = "joining"
    /\ pcs' = "returned"
    /\ UNCHANGED <<dirs, fs, reverse, CONTEXTS, active, last, prev, queue, obs, stopReq, mods>>

\* build.py:124 and 150-151: observer.join() returns when the observer
\* thread has ended; watch_templates and main return.
Join ==
    /\ pcs = "joining"
    /\ obs \in {"exited", "dead"}
    /\ pcs' = "returned"
    /\ UNCHANGED <<dirs, fs, reverse, CONTEXTS, active, last, prev, queue, obs, stopReq, mods>>

NextWatch ==
    \/ StartBuild
    \/ \E i \in 1..Len(active) : RenderNext(i)
    \/ \E i \in 1..Len(active) : RenderFail(i)
    \/ \E i \in 1..Len(active) : PassEnd(i)
    \/ StartWatch
    \/ \E path \in ModPaths, src \in Sources : Modify(path, src)
    \/ Dispatch
    \/ Interrupt
    \/ ObserverExit
    \/ Join

SpecWatch == InitWatch /\ [][NextWatch]_vars

ObsFrames == {k \in 1..Len(active) : active[k].owner = "obs"}

Watching == pcs \in {"watching", "joining", "returned"}

\* A step in which the observer thread takes the event at the head of its
\* queue.
Taken == queue # <<>> /\ queue' = Tail(queue)

\* A step in which a build pass starts.
PassStarts == Len(active') > Len(active)

C7_Step ==
    /\ (Watching /\ PassStarts) =>
          /\ Taken
          /\ IsUnder(Head(queue), TEMPLATE_PATH)
    /\ (Taken /\ IsUnder(Head(queue), TEMPLATE_PATH)) =>
          active' = Append(active, NewFrame("obs", 1, fs))
    /\ (Taken /\ ~IsUnder(Head(queue), TEMPLATE_PATH)) => active' = active
    /\ (mods' # mods /\ ~IsUnder(mods'[Len(mods')], TEMPLATE_PATH)) =>
          /\ queue' = queue
          /\ active' = active

\* C7: in watch mode a modification event for a path under the template
\* root, when the handler is called with it, starts exactly one build pass
\* over the whole template tree, whichever path it names; a build pass
\* starts in no other way, and a modification of a path outside the
\* template root queues no event and starts no pass.
C7_OneRebuildPerEvent ==
    /\ [][C7_Step]_vars
    /\ [](\A k \in 1..Len(queue) : IsUnder(queue[k], TEMPLATE_PATH))

\* C7's witness: after a modification in a directory beside the template
\* root and one of the template root, exactly one rebuild pass has run, to
\* its end, and nothing is left to do.
C7_Witness ==
    /\ mods = <<OutsideSibling, TEMPLATE_PATH>>
    /\ last.owner = "obs" /\ last.done /\ Len(last.log) >= 1
    /\ prev.owner = "main"
    /\ active = <<>> /\ queue = <<>>
    /\ pcs = "watching"

\* C8: the main thread leaves its sleep loop only by the interrupt, which
\* stops the observer; watch_templates returns only when the observer
\* thread has ended, so that no pass is in progress then; after it has
\* returned no pass starts or runs and no event is taken; and the join
\* waits for nothing but a pass in progress: with none, the observer thread
\* can end or has ended, and then the join can return.
C8_Shutdown ==
    /\ [][(pcs = "watching" /\ pcs' # "watching") => (pcs' = "joining" /\ stopReq')]_vars
    /\ [](pcs \in {"joining", "returned"} => stopReq)
    /\ [](pcs = "returned" => (obs \in {"exited", "dead"} /\ ObsFrames = {}))
    /\ [][pcs = "returned" =>
            (pcs' = "returned" /\ active' = active /\ queue' = queue /\ last' = last)]_vars
    /\ [](pcs = "joining" => (ObsFrames # {} \/ ENABLED ObserverExit \/ ENABLED Join))

\* C8's witness: watch_templates has returned after a rebuild pass ran to
\* its end, with an event left in the queue that is never handled.
C8_Witness ==
    /\ pcs = "returned"
    /\ obs = "exited"
    /\ last.owner = "obs" /\ last.done /\ Len(last.log) >= 1
    /\ queue # <<>>

\* C9 as stated: rebuild passes are not mutually excluded, so that with a
\* rebuild in progress and a second qualifying event in the queue, the
\* second rebuild can start.
C9_PassesOverlap ==
    (obs = "running" /\ ObsFrames # {} /\ queue # <<>> /\ on_modified(Head(queue)))
        => ENABLED Dispatch

\* C9 amended: the rebuild passes of watch mode are serialised by the
\* observer's one thread: at most one is in progress at a time, and an
\* event that arrives during a rebuild stays in the queue until that
\* rebuild has ended.
C9_Serialized ==
    /\ [](Cardinality(ObsFrames) <= 1)
    /\ [][(ObsFrames # {} /\ queue # <<>>) => ~Taken]_vars

\* C9's witness: a rebuild is in progress, one template rendered, while a
\* second qualifying event waits in the queue.
C9_Witness ==
    /\ Cardinality(ObsFrames) = 1
    /\ active[1].log # <<>>
    /\ queue # <<>>
    /\ on_modified(Head(queue))

\* C10: no build pass writes under the template root, and so every event
\* in the observer's queue comes from a modification from outside.
C10_ReadsOnlyUnderRoot ==
    /\ \A f \in Frames : ~WritesUnderRoot(f)
    /\ \A k \in 1..Len(queue) : queue[k] \in Range(mods)

====
